---- MODULE Spec2Model ----
(***************************************************************************)
(* Model of adguardhome_dns.py (AdGuardConfigConverter): release lookup,   *)
(* download with retry, per-file conversion and the de-duplicating merge.  *)
(*                                                                         *)
(* Text is modelled as a sequence of one-character strings, a file as a    *)
(* record [exists, content] whose content is a sequence of lines (without  *)
(* their line terminator), and an optional value as a set of at most one   *)
(* element ({} is Python's None).                                          *)
(***************************************************************************)
EXTENDS Integers, Sequences, FiniteSets, TLC

(* ------------------------------------------------------------------ *)
(* Bounds of the model                                                 *)
(* ------------------------------------------------------------------ *)
\* longest domain token drawn for the line-transformation inputs
MaxDomainLen == 2
\* longest resolver list drawn for the line-transformation inputs
MaxResolvers == 2
\* failed download tries the environment may produce in one behaviour
MaxFailures == 6
\* most lines of a raw file behind a converted file of the merge-only inputs
MaxBodyLines == 2

(* ------------------------------------------------------------------ *)
(* Python str helpers                                                  *)
(* ------------------------------------------------------------------ *)
\* characters str.strip() removes (space and tab stand for all whitespace)
Whitespace == {" ", "\t"}

\* s[i:] with a 0-based i, as Python slices
DropFirst(s, n) == SubSeq(s, n + 1, Len(s))

\* str.startswith(prefix)
StartsWith(s, p) == Len(s) >= Len(p) /\ SubSeq(s, 1, Len(p)) = p

RECURSIVE LStrip(_)
LStrip(s) == IF s # <<>> /\ Head(s) \in Whitespace THEN LStrip(Tail(s)) ELSE s

RECURSIVE RStrip(_)
RStrip(s) ==
    IF s # <<>> /\ s[Len(s)] \in Whitespace THEN RStrip(SubSeq(s, 1, Len(s) - 1)) ELSE s

\* str.strip()
Strip(s) == RStrip(LStrip(s))

\* sep.join(parts)
RECURSIVE Join(_, _)
Join(sep, parts) ==
    IF parts = <<>> THEN <<>>
    ELSE IF Len(parts) = 1 THEN parts[1]
    ELSE parts[1] \o sep \o Join(sep, Tail(parts))

\* str.find(c) for a single character, 0-based, -1 when absent
RECURSIVE FindFrom(_, _, _)
FindFrom(s, c, i) ==
    IF i > Len(s) THEN -1
    ELSE IF s[i] = c THEN i - 1
    ELSE FindFrom(s, c, i + 1)

Find(s, c) == FindFrom(s, c, 1)

\* s[a:b] with 0-based a, b >= 0 (empty when b <= a)
Slice(s, a, b) == SubSeq(s, a + 1, IF b > Len(s) THEN Len(s) ELSE b)

\* c in s
Contains(s, c) == \E i \in 1..Len(s) : s[i] = c

(* ------------------------------------------------------------------ *)
(* Literals of the program                                             *)
(* ------------------------------------------------------------------ *)
FullPrefix == <<"f", "u", "l", "l", ":">>
RegexpPrefix == <<"r", "e", "g", "e", "x", "p", ":">>
CommentMark == <<"#">>
None == {}

(* ------------------------------------------------------------------ *)
(* Line transformation                                                 *)
(* ------------------------------------------------------------------ *)
\* mutant: the resolvers are joined in reverse order
RECURSIVE Reverse(_)
Reverse(s) == IF s = <<>> THEN <<>> ELSE Reverse(Tail(s)) \o <<Head(s)>>

convert_domain_reversed_dns(domain, dns_servers) ==
    LET d1 == IF StartsWith(domain, FullPrefix) THEN DropFirst(domain, 5) ELSE domain
        d2 == Strip(d1)
    IN  IF d2 # <<>>
        THEN {<<"[", "/">> \o d2 \o <<"/", "]">> \o Join(<<" ">>, Reverse(dns_servers))}
        ELSE None

\* convert_domain_to_adguard_format(domain, dns_servers): a directive or None
convert_domain_to_adguard_format(domain, dns_servers) ==
    LET d1 == IF StartsWith(domain, FullPrefix) THEN DropFirst(domain, 5) ELSE domain
        d2 == Strip(d1)
    IN  IF d2 # <<>>
        THEN {<<"[", "/">> \o d2 \o <<"/", "]">> \o Join(<<" ">>, dns_servers)}
        ELSE None

\* mutant: lines that start with the regexp marker are not skipped
ConvertLineKeepRegexp(line, dns_servers) ==
    LET l == Strip(line)
    IN  IF l = <<>> \/ StartsWith(l, CommentMark)
        THEN None
        ELSE LET adguard_line == convert_domain_to_adguard_format(l, dns_servers)
             IN  {a \in adguard_line : a # <<>>}

\* the body of the loop of convert_file_to_adguard: the line written for one
\* raw line, or None when the line is skipped
ConvertLine(line, dns_servers) ==
    LET l == Strip(line)
    IN  IF l = <<>> \/ StartsWith(l, CommentMark) \/ StartsWith(l, RegexpPrefix)
        THEN None
        ELSE LET adguard_line == convert_domain_to_adguard_format(l, dns_servers)
             IN  {a \in adguard_line : a # <<>>}

(* ------------------------------------------------------------------ *)
(* Source registry (__init__)                                          *)
(* ------------------------------------------------------------------ *)
domestic_files == <<"apple-cn.txt", "google-cn.txt", "china-list.txt">>
foreign_files == <<"proxy-list.txt", "gfw.txt", "greatfire.txt">>
all_files == domestic_files \o foreign_files
Files == {all_files[i] : i \in 1..Len(all_files)}

\* a resolver address is an opaque one-symbol text
default_domestic_dns == << <<"114.114.114.114">> >>
default_foreign_dns == << <<"8.8.8.8">> >>

\* download_file_with_retry(..., max_attempts=3)
max_attempts == 3

(* ------------------------------------------------------------------ *)
(* Files on disk                                                       *)
(* ------------------------------------------------------------------ *)
Absent == [exists |-> FALSE, content |-> <<>>]
FileOf(c) == [exists |-> TRUE, content |-> c]

(* ------------------------------------------------------------------ *)
(* File converter                                                      *)
(* ------------------------------------------------------------------ *)
\* mutant: each line is written before the lines written so far
RECURSIVE ConvertLinesReversed(_, _)
ConvertLinesReversed(lines, dns_servers) ==
    IF lines = <<>> THEN <<>>
    ELSE LET r == ConvertLine(Head(lines), dns_servers)
             rest == ConvertLinesReversed(Tail(lines), dns_servers)
         IN  IF r = None THEN rest ELSE rest \o <<CHOOSE a \in r : TRUE>>

\* the lines written for the raw lines, in order
RECURSIVE ConvertLines(_, _)
ConvertLines(lines, dns_servers) ==
    IF lines = <<>> THEN <<>>
    ELSE LET r == ConvertLine(Head(lines), dns_servers)
             rest == ConvertLines(Tail(lines), dns_servers)
         IN  IF r = None THEN rest ELSE <<CHOOSE a \in r : TRUE>> \o rest

\* the two provenance lines and the blank line that open a converted file
\* ("dns-servers" and "source-file" stand for the labels of the two comments)
ConvertedHeader(input_filename, dns_servers) ==
    << <<"#", " ", "dns-servers", ":", " ">> \o Join(<<" ">>, dns_servers),
       <<"#", " ", "source-file", ":", " ", input_filename>>,
       <<>> >>

\* mutant: the output file is opened in append mode
convert_file_appending(input_filename, raw_file, old_converted, dns_servers) ==
    IF ~raw_file.exists
    THEN old_converted
    ELSE FileOf(old_converted.content
                \o ConvertedHeader(input_filename, dns_servers)
                \o ConvertLines(raw_file.content, dns_servers))

\* convert_file_to_adguard: the converted file left on disk, given the raw
\* file and the converted file found there
convert_file_to_adguard(input_filename, raw_file, old_converted, dns_servers) ==
    IF ~raw_file.exists
    THEN old_converted
    ELSE FileOf(ConvertedHeader(input_filename, dns_servers)
                \o ConvertLines(raw_file.content, dns_servers))

(* ------------------------------------------------------------------ *)
(* Merge engine                                                        *)
(* ------------------------------------------------------------------ *)
\* line[line.find('['):line.find(']')+1]
DomainPart(line) == Slice(line, Find(line, "["), Find(line, "]") + 1)

\* a line of a converted file that the merge looks at: not blank and not
\* starting with the comment mark
IsContentLine(line) == Strip(line) # <<>> /\ ~StartsWith(line, CommentMark)

\* a content line from which a key is extracted
HasKey(line) == Contains(line, "[") /\ Contains(line, "]")

\* mutant: the counter is incremented for every line that carries a key
MergeLineCountingAll(line, st) ==
    IF IsContentLine(line) /\ HasKey(line)
    THEN IF DomainPart(line) \notin st.seen
         THEN [seen |-> st.seen \cup {DomainPart(line)},
               out |-> Append(st.out, line),
               count |-> st.count + 1]
         ELSE [st EXCEPT !.count = @ + 1]
    ELSE st

\* the body of the inner loop of create_merged_config for one line;
\* st = [seen: processed_domains, out: lines written, count: the counter]
MergeLine(line, st) ==
    IF IsContentLine(line) /\ HasKey(line) /\ DomainPart(line) \notin st.seen
    THEN [seen |-> st.seen \cup {DomainPart(line)},
          out |-> Append(st.out, line),
          count |-> st.count + 1]
    ELSE st

RECURSIVE MergeLines(_, _)
MergeLines(lines, st) ==
    IF lines = <<>> THEN st ELSE MergeLines(Tail(lines), MergeLine(Head(lines), st))

\* the provenance comment written before the lines of one source
SourceLine(filename) == <<"#", " ", "source", ":", " ", filename>>

\* one converted file: skipped when it does not exist, else the provenance
\* comment, its first-seen lines and a blank line
MergeFile(filename, converted, st) ==
    IF ~converted[filename].exists THEN st
    ELSE LET a == [st EXCEPT !.out = Append(@, SourceLine(filename))]
             b == MergeLines(converted[filename].content, a)
         IN  [b EXCEPT !.out = Append(@, <<>>)]

\* mutant: the files of a section are read in reverse list order
RECURSIVE MergeFilesReversed(_, _, _)
MergeFilesReversed(filenames, converted, st) ==
    IF filenames = <<>> THEN st
    ELSE MergeFile(Head(filenames), converted,
                   MergeFilesReversed(Tail(filenames), converted, st))

RECURSIVE MergeFiles(_, _, _)
MergeFiles(filenames, converted, st) ==
    IF filenames = <<>> THEN st
    ELSE MergeFiles(Tail(filenames), converted, MergeFile(Head(filenames), converted, st))

\* the head of the merged file: title, generation time, note, blank line,
\* the recommended upstream resolvers, blank line
MergedHeader ==
    << <<"#", " ", "title">>,
       <<"#", " ", "generated", ":", " ", "timestamp">>,
       <<"#", " ", "note">>,
       <<>>,
       <<"#", " ", "recommended-upstreams">>,
       <<"tls://dns.alidns.com">>,
       <<"tls://dot.pub">>,
       <<"tls://dns.google">>,
       <<"tls://one.one.one.one">>,
       <<>> >>

SectionLine(label, dns_servers) ==
    <<"#", " ", "=", "=", "=", " ", label, " ">> \o Join(<<" ">>, dns_servers)
        \o <<" ", "=", "=", "=">>

\* mutant: the seen set is emptied between the two sections
MergedConfigPerSection(converted, dom_dns, for_dns) ==
    LET s0 == [seen |-> {}, out |-> Append(MergedHeader, SectionLine("domestic", dom_dns)),
               count |-> 0]
        s1 == MergeFiles(domestic_files, converted, s0)
        s2 == [seen |-> {}, out |-> Append(s1.out, SectionLine("foreign", for_dns)),
               count |-> 0]
        s3 == MergeFiles(foreign_files, converted, s2)
    IN  [out |-> s3.out, processed_domains |-> s1.seen \cup s3.seen,
         domestic_count |-> s1.count, foreign_count |-> s3.count]

\* the try block of create_merged_config: what is written to the merged
\* file, the seen set and the two counters
MergedConfig(converted, dom_dns, for_dns) ==
    LET s0 == [seen |-> {}, out |-> Append(MergedHeader, SectionLine("domestic", dom_dns)),
               count |-> 0]
        s1 == MergeFiles(domestic_files, converted, s0)
        s2 == [seen |-> s1.seen, out |-> Append(s1.out, SectionLine("foreign", for_dns)),
               count |-> 0]
        s3 == MergeFiles(foreign_files, converted, s2)
    IN  [out |-> s3.out, processed_domains |-> s3.seen,
         domestic_count |-> s1.count, foreign_count |-> s3.count]

(* ------------------------------------------------------------------ *)
(* State                                                               *)
(* ------------------------------------------------------------------ *)
VARIABLES
    pc,                 \* where the process is: "off" (not running), "release", "download",
                        \* "convert", "merge", "summary", "exit0", "exit1"; the stages of
                        \* the line-transformation and merge-only specifications
    base_url,           \* the value get_latest_release_info returned ("unset" before)
    release,            \* how the release-metadata request ended
    idx,                \* position of the loop over the file list of the current phase
    attempt,            \* attempt of the loop of download_file_with_retry
    success_count,      \* download_all_files' counter
    fetched,            \* what download_file_with_retry returned, per file, in this run
    tried,              \* how each try of the latest download_file_with_retry call ended
    sleeps,             \* time.sleep(2) calls made in that call
    requests,           \* the HTTP requests sent in this run
    log,                \* the calls run has made in this run, in order
    merge_io,           \* the I/O failure create_merged_config met in this run, or "none"
    diagnostic,         \* the error message this run printed before exiting, or "none"
    failures,           \* failed download tries so far (bounded by MaxFailures)
    mirror_ok,          \* environment: a mirror of the rule files is reachable in this run
    token_file,         \* <output_dir>/token
    domestic_dns,
    foreign_dns,
    raw,                \* configs/<name>, per file
    converted,          \* configs/<name>.adg.txt, per file
    merged,             \* <output_dir>/chinalist-for-adguard.txt
    processed_domains,  \* create_merged_config's set and counters, as last reported
    domestic_count,
    foreign_count,
    in_line,            \* line-transformation specification: the raw line,
    in_dns,             \*   the resolver list,
    out_line,           \*   the result for the line,
    out_full,           \*   the result for the line with "full:" put before it
    found_converted,    \* conversion specification: the converted file found on disk,
    first_converted     \*   the converted file the first conversion left

vars == <<pc, base_url, release, idx, attempt, success_count, fetched, tried, sleeps,
          requests, log, merge_io, diagnostic, failures, mirror_ok, token_file, domestic_dns, foreign_dns, raw,
          converted, merged, processed_domains, domestic_count, foreign_count,
          in_line, in_dns, out_line, out_full, found_converted, first_converted>>

run_vars == <<base_url, release, idx, attempt, success_count, fetched, tried, sleeps,
              requests, log, merge_io, diagnostic, failures, mirror_ok>>
disk_vars == <<token_file, raw, converted, merged>>
dns_vars == <<domestic_dns, foreign_dns>>
merge_vars == <<processed_domains, domestic_count, foreign_count>>
conv_vars == <<found_converted, first_converted>>
line_vars == <<in_line, in_dns, out_line, out_full, conv_vars>>

\* the in-memory state of a process that has not run yet
FreshRun ==
    /\ base_url = "unset"
    /\ release = "pending"
    /\ idx = 1
    /\ attempt = 1
    /\ success_count = 0
    /\ fetched = [f \in Files |-> "none"]
    /\ tried = <<>>
    /\ sleeps = 0
    /\ requests = {}
    /\ log = <<>>
    /\ merge_io = "none"
    /\ diagnostic = "none"
    /\ processed_domains = {}
    /\ domestic_count = 0
    /\ foreign_count = 0

\* the same, of the process run_start launches
FreshRunNext ==
    /\ base_url' = "unset"
    /\ release' = "pending"
    /\ idx' = 1
    /\ attempt' = 1
    /\ success_count' = 0
    /\ fetched' = [f \in Files |-> "none"]
    /\ tried' = <<>>
    /\ sleeps' = 0
    /\ requests' = {}
    /\ log' = <<>>
    /\ merge_io' = "none"
    /\ diagnostic' = "none"
    /\ processed_domains' = {}
    /\ domestic_count' = 0
    /\ foreign_count' = 0

EmptyDisk ==
    /\ raw = [f \in Files |-> Absent]
    /\ converted = [f \in Files |-> Absent]
    /\ merged = Absent

NoLine ==
    /\ in_line = <<>>
    /\ in_dns = default_domestic_dns
    /\ out_line = None
    /\ out_full = None
    /\ found_converted = Absent
    /\ first_converted = Absent

(* ------------------------------------------------------------------ *)
(* Environment of a run                                                *)
(* ------------------------------------------------------------------ *)
\* what the release serves for each rule file
RemoteBody(f) ==
    CASE f = "apple-cn.txt" -> << FullPrefix \o <<"a">>, <<"b">> >>
      [] f = "google-cn.txt" -> << <<"a">>, <<"#", "x">> >>
      [] f = "china-list.txt" -> << <<"c">>, RegexpPrefix \o <<"r">> >>
      [] f = "proxy-list.txt" -> << <<"b">>, <<"d">> >>
      [] f = "gfw.txt" -> << <<"d">>, <<" ">> >>
      [] f = "greatfire.txt" -> << <<"e">> >>

\* the token file: none, one holding a token and a line end, an empty one
TokenFiles == {Absent, FileOf(<<"t", "k", "\t">>), FileOf(<<>>)}

\* the resolver lists parse_arguments ends with: the defaults, or those given
ArgChoices ==
    {<<default_domestic_dns, default_foreign_dns>>,
     << << <<"223.5.5.5">>, <<"114.114.114.114">> >>, << <<"1.1.1.1">> >> >>}

(* ------------------------------------------------------------------ *)
(* The run                                                             *)
(* ------------------------------------------------------------------ *)
\* get_token: the stripped content of the token file, or None
get_token == IF token_file.exists THEN {Strip(token_file.content)} ELSE None

\* the Authorization header both requests are built with
Authorization ==
    IF get_token # None /\ get_token # {<<>>}
    THEN <<"Bearer", " ">> \o (CHOOSE t \in get_token : TRUE)
    ELSE <<"Bearer", " ", "GITHUB_TOKEN">>

\* main/run up to the release lookup: a new process, parse_arguments (the
\* same command line in every run), create_directories
run_start ==
    /\ pc \in {"off", "exit0", "exit1"}
    /\ pc' = "release"
    /\ FreshRunNext
    /\ UNCHANGED <<failures, mirror_ok, disk_vars, dns_vars, line_vars>>

\* mutant: a failed lookup returns no base URL and the run goes on
get_latest_release_info_soft ==
    /\ pc = "release"
    /\ requests' = requests \cup {[to |-> "api", file |-> "latest", auth |-> Authorization]}
    /\ \E outcome \in {"ok", "url_error", "no_assets", "no_download_url"} :
          /\ release' = outcome
          /\ base_url' = IF outcome = "ok" THEN "release" ELSE "None"
          /\ pc' = "download"
          /\ diagnostic' = diagnostic
    /\ UNCHANGED <<idx, attempt, success_count, fetched, tried, sleeps, log, merge_io, failures,
                   mirror_ok,
                   disk_vars, dns_vars, merge_vars, line_vars>>

\* get_latest_release_info: the base URL of the first asset that has a
\* download URL; sys.exit(1) when the request fails or no asset has one
get_latest_release_info ==
    /\ pc = "release"
    /\ requests' = requests \cup {[to |-> "api", file |-> "latest", auth |-> Authorization]}
    /\ \E outcome \in {"ok", "url_error", "no_assets", "no_download_url"} :
          /\ release' = outcome
          /\ IF outcome = "ok"
             THEN base_url' = "release" /\ pc' = "download" /\ diagnostic' = diagnostic
             ELSE base_url' = base_url /\ pc' = "exit1" /\ diagnostic' = "release_error"
    /\ UNCHANGED <<idx, attempt, success_count, fetched, tried, sleeps, log, merge_io, failures,
                   mirror_ok,
                   disk_vars, dns_vars, merge_vars, line_vars>>

\* mutant: the loop of download_all_files ends one file early
NextFileEarly ==
    /\ attempt' = 1
    /\ IF idx < Len(all_files) - 1
       THEN idx' = idx + 1 /\ pc' = "download"
       ELSE idx' = 1 /\ pc' = "convert"

\* the loop of download_all_files moves to the next file, or ends
NextFile ==
    /\ attempt' = 1
    /\ IF idx < Len(all_files)
       THEN idx' = idx + 1 /\ pc' = "download"
       ELSE idx' = 1 /\ pc' = "convert"

\* sleeps made so far in the call the current try belongs to
Slept == IF attempt = 1 THEN 0 ELSE sleeps

\* mutant: download_all_files gives up the run at the first file that fails
AfterTryAbort(f, ok) ==
    IF ok
    THEN /\ fetched' = [fetched EXCEPT ![f] = "ok"]
         /\ success_count' = success_count + 1
         /\ sleeps' = Slept
         /\ NextFile
    ELSE IF attempt < max_attempts
    THEN /\ sleeps' = Slept + 1
         /\ attempt' = attempt + 1
         /\ UNCHANGED <<fetched, success_count, idx, pc>>
    ELSE /\ fetched' = [fetched EXCEPT ![f] = "exhausted"]
         /\ attempt' = 1
         /\ pc' = "exit1"
         /\ sleeps' = Slept
         /\ UNCHANGED <<success_count, idx>>

\* mutant: one try too many (range(1, max_attempts + 2))
AfterTryOneMore(f, ok) ==
    IF ok
    THEN /\ fetched' = [fetched EXCEPT ![f] = "ok"]
         /\ success_count' = success_count + 1
         /\ sleeps' = Slept
         /\ NextFile
    ELSE IF attempt < max_attempts + 1
    THEN /\ sleeps' = Slept + 1
         /\ attempt' = attempt + 1
         /\ UNCHANGED <<fetched, success_count, idx, pc>>
    ELSE /\ fetched' = [fetched EXCEPT ![f] = "exhausted"]
         /\ sleeps' = Slept
         /\ success_count' = success_count
         /\ NextFile

\* mutant: after the last failed try the mirror is asked, and it answers
\* when it is reachable
AfterTryMirror(f, ok) ==
    IF ok
    THEN /\ fetched' = [fetched EXCEPT ![f] = "ok"]
         /\ success_count' = success_count + 1
         /\ sleeps' = Slept
         /\ NextFile
    ELSE IF attempt < max_attempts
    THEN /\ sleeps' = Slept + 1
         /\ attempt' = attempt + 1
         /\ UNCHANGED <<fetched, success_count, idx, pc>>
    ELSE /\ fetched' = [fetched EXCEPT ![f] = IF mirror_ok THEN "ok" ELSE "exhausted"]
         /\ success_count' = IF mirror_ok THEN success_count + 1 ELSE success_count
         /\ sleeps' = Slept
         /\ NextFile

\* mutant: a failed try is always followed by another (no last attempt)
AfterTryForever(f, ok) ==
    IF ok
    THEN /\ fetched' = [fetched EXCEPT ![f] = "ok"]
         /\ success_count' = success_count + 1
         /\ sleeps' = Slept
         /\ NextFile
    ELSE /\ sleeps' = Slept + 1
         /\ attempt' = attempt + 1
         /\ UNCHANGED <<fetched, success_count, idx, pc>>

\* what follows one try of download_file_with_retry: return True, sleep and
\* try again, or return False; then download_all_files' loop
AfterTry(f, ok) ==
    IF ok
    THEN /\ fetched' = [fetched EXCEPT ![f] = "ok"]
         /\ success_count' = success_count + 1
         /\ sleeps' = Slept
         /\ NextFile
    ELSE IF attempt < max_attempts
    THEN /\ sleeps' = Slept + 1
         /\ attempt' = attempt + 1
         /\ UNCHANGED <<fetched, success_count, idx, pc>>
    ELSE /\ fetched' = [fetched EXCEPT ![f] = "exhausted"]
         /\ sleeps' = Slept
         /\ success_count' = success_count
         /\ NextFile

\* the raw file after one try: the old copy is deleted before the request;
\* the file is created once the response has arrived, and written when the
\* body has been read
RawAfterTry(f, outcome) ==
    CASE outcome = "ok" -> FileOf(RemoteBody(f))
      [] outcome = "read_error" -> FileOf(<<>>)
      [] outcome = "open_error" -> Absent

\* one pass of the loop of download_file_with_retry for the current file
download_try ==
    /\ pc = "download"
    /\ LET f == all_files[idx]
       IN  \E outcome \in {"ok", "open_error", "read_error"} :
              /\ outcome # "ok" => failures < MaxFailures
              /\ failures' = IF outcome = "ok" THEN failures ELSE failures + 1
              /\ requests' = requests \cup
                     {[to |-> base_url, file |-> f, auth |-> Authorization]}
              /\ log' = IF attempt = 1 THEN Append(log, <<"download", f>>) ELSE log
              /\ tried' = Append(IF attempt = 1 THEN <<>> ELSE tried,
                                  IF outcome = "ok" THEN "ok" ELSE "fail")
              /\ raw' = [raw EXCEPT ![f] = RawAfterTry(f, outcome)]
              /\ AfterTry(f, outcome = "ok")
    /\ UNCHANGED <<base_url, release, mirror_ok, token_file, converted, merged,
                   merge_io, diagnostic, dns_vars, merge_vars, line_vars>>

\* one pass of the loops of convert_all_files: domestic files with the
\* domestic resolvers, then foreign files with the foreign resolvers
convert_step ==
    /\ pc = "convert"
    /\ LET f == all_files[idx]
           dns == IF idx <= Len(domestic_files) THEN domestic_dns ELSE foreign_dns
       IN  /\ converted' = [converted EXCEPT
               ![f] = convert_file_to_adguard(f, raw[f], converted[f], dns)]
           /\ log' = Append(log, <<"convert", f>>)
    /\ IF idx < Len(all_files)
       THEN idx' = idx + 1 /\ pc' = pc
       ELSE idx' = 1 /\ pc' = "merge"
    /\ UNCHANGED <<base_url, release, attempt, success_count, fetched, tried, sleeps,
                   requests, failures, mirror_ok, token_file, raw, merged,
                   merge_io, diagnostic, dns_vars, merge_vars, line_vars>>

\* create_merged_config when the merged file can be replaced and written
create_merged_config ==
    /\ pc \in {"merge", "merge_only"}
    /\ LET m == MergedConfig(converted, domestic_dns, foreign_dns)
       IN  /\ merged' = FileOf(m.out)
           /\ processed_domains' = m.processed_domains
           /\ domestic_count' = m.domestic_count
           /\ foreign_count' = m.foreign_count
    /\ pc' = IF pc = "merge" THEN "summary" ELSE "merge_done"
    /\ log' = Append(log, <<"merge", "-">>)
    /\ UNCHANGED <<base_url, release, idx, attempt, success_count, fetched, tried, sleeps,
                   requests, failures, mirror_ok, token_file, raw, converted,
                   merge_io, diagnostic, dns_vars, line_vars>>

\* mutant: the failure is reported and the run goes on to the summary
create_merged_config_error_reported ==
    /\ pc = "merge"
    /\ \E cause \in {"unlink_error", "open_error"} :
          /\ cause = "unlink_error" => merged.exists
          /\ merged' = IF cause = "unlink_error" THEN merged ELSE Absent
          /\ merge_io' = cause
          /\ diagnostic' = IF cause = "unlink_error" THEN "unexpected_error"
                           ELSE "merge_error"
    /\ pc' = "summary"
    /\ log' = Append(log, <<"merge", "-">>)
    /\ UNCHANGED <<base_url, release, idx, attempt, success_count, fetched, tried, sleeps,
                   requests, failures, mirror_ok, token_file, raw, converted,
                   dns_vars, merge_vars, line_vars>>

\* create_merged_config when it meets an I/O failure: the old merged file
\* cannot be deleted (the exception reaches run, which prints it and calls
\* sys.exit(1)), or the new one cannot be opened for writing
\* (create_merged_config prints the error and calls sys.exit(1))
create_merged_config_error ==
    /\ pc = "merge"
    /\ \E cause \in {"unlink_error", "open_error"} :
          /\ cause = "unlink_error" => merged.exists
          /\ merged' = IF cause = "unlink_error" THEN merged ELSE Absent
          /\ merge_io' = cause
          /\ diagnostic' = IF cause = "unlink_error" THEN "unexpected_error"
                           ELSE "merge_error"
    /\ pc' = "exit1"
    /\ log' = Append(log, <<"merge", "-">>)
    /\ UNCHANGED <<base_url, release, idx, attempt, success_count, fetched, tried, sleeps,
                   requests, failures, mirror_ok, token_file, raw, converted,
                   dns_vars, merge_vars, line_vars>>

\* show_summary, then the process ends normally
show_summary ==
    /\ pc = "summary"
    /\ pc' = "exit0"
    /\ UNCHANGED <<run_vars, disk_vars, dns_vars, merge_vars, line_vars>>

Init ==
    /\ pc = "off"
    /\ FreshRun
    /\ EmptyDisk
    /\ failures = 0
    /\ mirror_ok \in BOOLEAN
    /\ token_file \in TokenFiles
    /\ \E args \in ArgChoices :
          /\ domestic_dns = args[1]
          /\ foreign_dns = args[2]
    /\ NoLine

Next ==
    \/ run_start
    \/ get_latest_release_info
    \/ download_try
    \/ convert_step
    \/ create_merged_config
    \/ create_merged_config_error
    \/ show_summary

Spec == Init /\ [][Next]_vars

(* ------------------------------------------------------------------ *)
(* Specification of the line transformation                            *)
(* ------------------------------------------------------------------ *)
RECURSIVE SeqsUpTo(_, _)
SeqsUpTo(S, n) ==
    IF n = 0 THEN {<<>>}
    ELSE LET shorter == SeqsUpTo(S, n - 1)
         IN  shorter \cup {Append(s, x) : s \in shorter, x \in S}

DomainChars == {"a", " ", "#"}
DomainTokens == SeqsUpTo(DomainChars, MaxDomainLen)

InputLines ==
    {lead \o pre1 \o mid \o pre2 \o body \o trail :
        lead \in {<<>>, <<" ">>},
        pre1 \in {<<>>, FullPrefix, RegexpPrefix, CommentMark, <<"f", "u", "l", "l">>},
        mid \in {<<>>, <<" ">>},
        pre2 \in {<<>>, FullPrefix},
        body \in DomainTokens,
        trail \in {<<>>, <<"\t">>}}

ResolverLists == SeqsUpTo({<<"1.1.1.1">>, <<"8.8.8.8">>}, MaxResolvers) \ {<<>>}

InitLine ==
    /\ pc = "line"
    /\ FreshRun
    /\ EmptyDisk
    /\ failures = 0
    /\ mirror_ok = FALSE
    /\ token_file = Absent
    /\ domestic_dns = default_domestic_dns
    /\ foreign_dns = default_foreign_dns
    /\ in_line \in InputLines
    /\ in_dns \in ResolverLists
    /\ out_line = None
    /\ out_full = None
    /\ found_converted = Absent
    /\ first_converted = Absent

\* the converter's loop body applied to the line
TransformLine ==
    /\ pc = "line"
    /\ out_line' = ConvertLine(in_line, in_dns)
    /\ pc' = "line_done"
    /\ UNCHANGED <<run_vars, disk_vars, dns_vars, merge_vars, in_line, in_dns, out_full,
                   conv_vars>>

\* the converter's loop body applied to the same line with "full:" before it
TransformPrefixed ==
    /\ pc = "line_done"
    /\ out_full' = ConvertLine(FullPrefix \o in_line, in_dns)
    /\ pc' = "full_done"
    /\ UNCHANGED <<run_vars, disk_vars, dns_vars, merge_vars, in_line, in_dns, out_line,
                   conv_vars>>

NextLine == TransformLine \/ TransformPrefixed

SpecLine == InitLine /\ [][NextLine]_vars

(* ------------------------------------------------------------------ *)
(* Claims about the line transformation (SpecLine)                     *)
(* ------------------------------------------------------------------ *)
IsBlank(s) == \A i \in 1..Len(s) : s[i] \in Whitespace

\* s without its leading and trailing whitespace, for a line that is not blank
Trimmed(s) ==
    LET first == CHOOSE i \in 1..Len(s) :
                     s[i] \notin Whitespace /\ \A j \in 1..(i - 1) : s[j] \in Whitespace
        last == CHOOSE i \in 1..Len(s) :
                    s[i] \notin Whitespace /\ \A j \in (i + 1)..Len(s) : s[j] \in Whitespace
    IN  SubSeq(s, first, last)

\* the four cases in which a line yields no directive
Rejected(l) ==
    \/ IsBlank(l)
    \/ /\ ~IsBlank(l)
       /\ LET t == Trimmed(l)
          IN  \/ StartsWith(t, CommentMark)
              \/ StartsWith(t, RegexpPrefix)
              \/ StartsWith(t, FullPrefix) /\ IsBlank(SubSeq(t, 6, Len(t)))

\* C7: the line transformation yields none if and only if the line is blank,
\* or the trimmed line starts with '#', or with 'regexp:', or is empty after
\* one leading 'full:' is removed and the rest trimmed; otherwise it yields a
\* directive.
Thm_C7 == pc # "line" => ((out_line = None) <=> Rejected(in_line))

\* a line that is rejected only because nothing follows its 'full:' prefix
Wit_C7 ==
    /\ pc = "line_done"
    /\ out_line = None
    /\ StartsWith(in_line, <<" ">> \o FullPrefix)
    /\ Len(in_line) > 6

\* the domain of a line that is not rejected
ClaimDomain(l) ==
    LET t == Trimmed(l)
    IN  IF StartsWith(t, FullPrefix) THEN Trimmed(SubSeq(t, 6, Len(t))) ELSE t

\* R1 + ' ' + ... + ' ' + Rn
RECURSIVE SpaceJoined(_, _)
SpaceJoined(r, n) ==
    IF n = 1 THEN r[1] ELSE SpaceJoined(r, n - 1) \o <<" ">> \o r[n]

ClaimDirective(l, r) == <<"[", "/">> \o ClaimDomain(l) \o <<"/", "]">> \o SpaceJoined(r, Len(r))

\* the trimmed line carries none of the markers the skip test and the prefix
\* removal look at
Unmarked(l) ==
    \/ IsBlank(l)
    \/ /\ ~StartsWith(Trimmed(l), CommentMark)
       /\ ~StartsWith(Trimmed(l), RegexpPrefix)
       /\ ~StartsWith(Trimmed(l), FullPrefix)

\* C8 (as stated): every directive is '[/' + D + '/]' + the resolvers joined
\* by single spaces, and a line with the 'full:' prefix yields the same
\* directive as the same line without it.
Orig_C8 ==
    /\ pc # "line" /\ out_line # None => out_line = {ClaimDirective(in_line, in_dns)}
    /\ pc = "full_done" /\ out_full # None => out_full = out_line

\* C8 (amended): every directive is '[/' + D + '/]' + the resolvers joined by
\* single spaces in the order given; a line with the 'full:' prefix yields
\* the same directive as the same line without it when that line, trimmed,
\* does not itself start with '#', 'regexp:' or 'full:'.
Thm_C8 ==
    /\ pc # "line" /\ out_line # None => out_line = {ClaimDirective(in_line, in_dns)}
    /\ pc = "full_done" /\ out_full # None /\ Unmarked(in_line) => out_full = out_line

\* a prefixed line and its plain form gave the same directive, with two
\* resolvers and whitespace after the prefix
Wit_C8 ==
    /\ pc = "full_done"
    /\ out_full # None
    /\ out_full = out_line
    /\ Len(in_dns) = 2
    /\ in_dns[1] # in_dns[2]
    /\ in_line # <<>> /\ in_line[1] = " "

(* ------------------------------------------------------------------ *)
(* Specification of the merge alone                                    *)
(* ------------------------------------------------------------------ *)
\* raw files the converted files of the merge-only inputs come from: the
\* first lines of a rule list that repeats a domain, and a list whose
\* domains hold a ']'
BodyA == << <<"a">>, FullPrefix \o <<"a">>, <<"a", "]", "b">>, <<"b">> >>
BodyB == << <<"a", "]", "b">>, <<"a", "]", "c">>, <<"b">> >>
Min(a, b) == IF a < b THEN a ELSE b
Bodies == {SubSeq(BodyA, 1, n) : n \in 1..Min(MaxBodyLines, Len(BodyA))} \cup {BodyB}

MergeDomesticDns == << <<"223.5.5.5">>, <<"114.114.114.114">> >>

ResolversOf(f) ==
    IF \E i \in 1..Len(domestic_files) : domestic_files[i] = f
    THEN MergeDomesticDns ELSE default_foreign_dns

\* what the converter leaves for each source and each raw file
ConvertedOf ==
    [f \in Files |->
        [r \in {Absent} \cup {FileOf(b) : b \in Bodies} |->
            convert_file_to_adguard(f, r, Absent, ResolversOf(f))]]

\* every converted file is missing or is what the converter wrote for some
\* raw file, with the resolvers of its category
InitMerge ==
    /\ pc = "merge_only"
    /\ FreshRun
    /\ failures = 0
    /\ mirror_ok = FALSE
    /\ token_file = Absent
    /\ domestic_dns = MergeDomesticDns
    /\ foreign_dns = default_foreign_dns
    /\ raw = [f \in Files |-> Absent]
    /\ merged = Absent
    /\ \E src \in [Files -> {Absent} \cup {FileOf(b) : b \in Bodies}] :
          converted = [f \in Files |-> ConvertedOf[f][src[f]]]
    /\ NoLine

SpecMerge == InitMerge /\ [][create_merged_config]_vars

(* ------------------------------------------------------------------ *)
(* Claims about the merge (SpecMerge)                                  *)
(* ------------------------------------------------------------------ *)
\* a directive line: a content line that carries a key
IsDirective(line) == IsContentLine(line) /\ HasKey(line)

RECURSIVE Directives(_)
Directives(lines) ==
    IF lines = <<>> THEN <<>>
    ELSE (IF IsDirective(Head(lines)) THEN <<Head(lines)>> ELSE <<>>)
         \o Directives(Tail(lines))

\* C1: after a merge no DedupKey occurs on more than one directive line of
\* the merged file, whatever the converted files of both categories hold.
Thm_C1 ==
    pc = "merge_done" =>
        LET d == Directives(merged.content)
        IN  \A i, j \in 1..Len(d) : i # j => DomainPart(d[i]) # DomainPart(d[j])

\* the same converted content, with directives, behind a domestic and a
\* foreign source, merged
Wit_C1 ==
    /\ pc = "merge_done"
    /\ Directives(converted["google-cn.txt"].content) # <<>>
    /\ Directives(converted["google-cn.txt"].content)
         = Directives(converted["apple-cn.txt"].content)
    /\ \E i \in 1..Len(converted["gfw.txt"].content) :
          /\ IsDirective(converted["gfw.txt"].content[i])
          /\ DomainPart(converted["gfw.txt"].content[i]) \in
                {DomainPart(l) : l \in {converted["apple-cn.txt"].content[k] :
                                          k \in 4..Len(converted["apple-cn.txt"].content)}}

\* the directive lines of the converted files that exist, in processing
\* order: domestic files in list order, then foreign files in list order
RECURSIVE Processed(_, _)
Processed(filenames, conv) ==
    IF filenames = <<>> THEN <<>>
    ELSE (IF conv[Head(filenames)].exists
          THEN Directives(conv[Head(filenames)].content) ELSE <<>>)
         \o Processed(Tail(filenames), conv)

\* the lines of a sequence whose key no earlier line carries
RECURSIVE FirstSeenFrom(_, _)
FirstSeenFrom(all, i) ==
    IF i > Len(all) THEN <<>>
    ELSE (IF \A j \in 1..(i - 1) : DomainPart(all[j]) # DomainPart(all[i])
          THEN <<all[i]>> ELSE <<>>)
         \o FirstSeenFrom(all, i + 1)

\* C2: the directive lines of the merged file are, verbatim and in order,
\* the lines of the converted files that are first in processing order
\* among the lines with their key.
Thm_C2 ==
    pc = "merge_done" =>
        Directives(merged.content) = FirstSeenFrom(Processed(all_files, converted), 1)

\* a key carried by different lines of a domestic and of a foreign file;
\* the merged file holds the domestic line
Wit_C2 ==
    /\ pc = "merge_done"
    /\ \E i \in 1..Len(converted["china-list.txt"].content),
          j \in 1..Len(converted["proxy-list.txt"].content) :
          LET x == converted["china-list.txt"].content[i]
              y == converted["proxy-list.txt"].content[j]
          IN  /\ IsDirective(x) /\ IsDirective(y)
              /\ DomainPart(x) = DomainPart(y)
              /\ x # y
              /\ \E k \in 1..Len(merged.content) : merged.content[k] = x
              /\ \A k \in 1..Len(merged.content) : merged.content[k] # y

(* ------------------------------------------------------------------ *)
(* Claims about the run (Spec)                                         *)
(* ------------------------------------------------------------------ *)
ReleaseFailures == {"url_error", "no_assets", "no_download_url"}

\* position in all_files of the file of the latest download_file_with_retry
\* call, 0 when none was made in this run
LastCalled ==
    IF pc = "download" THEN (IF attempt = 1 THEN idx - 1 ELSE idx)
    ELSE IF tried # <<>> THEN Len(all_files) ELSE 0

\* the latest call has not returned yet
Retrying == pc = "download" /\ attempt > 1

AllFailed(t) == \A i \in 1..Len(t) : t[i] = "fail"

\* every try of the latest call, which was for f, has failed, up to the cap
PrimaryFailed(f) ==
    /\ LastCalled > 0
    /\ all_files[LastCalled] = f
    /\ ~Retrying
    /\ Len(tried) = max_attempts
    /\ AllFailed(tried)

Thm_C4 ==
    /\ Len(tried) <= max_attempts
    /\ \A i \in 1..(Len(tried) - 1) : tried[i] = "fail"
    /\ Retrying =>
          /\ Len(tried) = attempt - 1
          /\ AllFailed(tried)
          /\ sleeps = Len(tried)
          /\ fetched[all_files[idx]] = "none"
    /\ LastCalled > 0 /\ ~Retrying =>
          LET f == all_files[LastCalled]
          IN  /\ fetched[f] \in {"ok", "exhausted"}
              /\ fetched[f] = "ok" <=> tried[Len(tried)] = "ok"
              /\ fetched[f] = "ok" => sleeps = Len(tried) - 1
              /\ fetched[f] = "exhausted" =>
                    /\ Len(tried) = max_attempts
                    /\ AllFailed(tried)
                    /\ sleeps = max_attempts - 1

\* a fetch that succeeded at its last allowed try, after two sleeps
Wit_C4 ==
    /\ tried = <<"fail", "fail", "ok">>
    /\ sleeps = 2
    /\ LastCalled > 0
    /\ ~Retrying
    /\ fetched[all_files[LastCalled]] = "ok"

InLog(op, f) == \E i \in 1..Len(log) : log[i] = <<op, f>>

\* C5: an exhausted fetch never ends the run: the fetch of every file is
\* attempted before the conversions start, the converter is called for
\* every file before the merge starts (a missing raw file is skipped), the
\* merge runs before the summary, and a run whose release lookup succeeded
\* exits with an error only from the merge.
Thm_C5 ==
    /\ pc \in {"convert", "merge", "summary", "exit0"} =>
          \A f \in Files : fetched[f] \in {"ok", "exhausted"} /\ InLog("download", f)
    /\ pc \in {"merge", "summary", "exit0"} =>
          \A f \in Files : InLog("convert", f)
    /\ pc \in {"summary", "exit0"} => InLog("merge", "-") /\ merged.exists
    /\ pc = "exit1" => release \in ReleaseFailures \/ InLog("merge", "-")

\* a run that ended with success although a domestic and a foreign fetch
\* were exhausted and left no raw file
Wit_C5 ==
    /\ pc = "exit0"
    /\ fetched["google-cn.txt"] = "exhausted" /\ ~raw["google-cn.txt"].exists
    /\ fetched["gfw.txt"] = "exhausted" /\ ~raw["gfw.txt"].exists
    /\ fetched["greatfire.txt"] = "ok"
    /\ merged.exists

\* C6 (as stated): a failed release lookup does not end the process.
Orig_C6 == release \in ReleaseFailures => pc # "exit1"

\* C6 (amended): if the release-metadata request fails, or its response has
\* no asset with a download URL, the run ends with a non-zero exit status
\* right after the lookup: no base URL is set, and no rule file is requested,
\* converted or merged in that run.
Thm_C6 ==
    release \in ReleaseFailures =>
        /\ pc = "exit1"
        /\ base_url = "unset"
        /\ log = <<>>
        /\ \A f \in Files : fetched[f] = "none"
        /\ \A q \in requests : q.to = "api"

\* a lookup that found no download URL, in a run after a complete one
Wit_C6 ==
    /\ release = "no_download_url"
    /\ pc = "exit1"
    /\ merged.exists
    /\ \A f \in Files : converted[f].exists

\* C9 (as stated): at the end of every run a converted file exists for a
\* source if and only if its raw file exists.
Orig_C9 ==
    pc \in {"exit0", "exit1"} =>
        \A f \in Files : converted[f].exists <=> raw[f].exists

\* the lines between the provenance comment of a source and the next blank
\* line of the merged file
RECURSIVE UntilBlank(_, _)
UntilBlank(lines, i) ==
    IF i > Len(lines) \/ lines[i] = <<>> THEN <<>>
    ELSE <<lines[i]>> \o UntilBlank(lines, i + 1)

SectionOf(f) ==
    IF \E i \in 1..Len(merged.content) : merged.content[i] = SourceLine(f)
    THEN UntilBlank(merged.content,
                    1 + CHOOSE i \in 1..Len(merged.content) :
                            merged.content[i] = SourceLine(f))
    ELSE <<>>

\* C10 (as stated): every converted file the merge of a run read was written
\* by the converter in that run from the raw file of that run, and the
\* merged file holds no directive of a source whose fetch was exhausted in
\* that run.
Orig_C10 ==
    pc \in {"summary", "exit0"} =>
        \A f \in Files :
            /\ converted[f].exists => raw[f].exists /\ InLog("convert", f)
            /\ fetched[f] = "exhausted" => Directives(SectionOf(f)) = <<>>

\* the calls of a complete run, in order
RECURSIVE Calls(_, _)
Calls(op, filenames) ==
    IF filenames = <<>> THEN <<>>
    ELSE << <<op, Head(filenames)>> >> \o Calls(op, Tail(filenames))

FullLog ==
    Calls("download", domestic_files) \o Calls("download", foreign_files)
        \o Calls("convert", domestic_files) \o Calls("convert", foreign_files)
        \o << <<"merge", "-">> >>

\* C11: in every run the files are fetched one at a time in registry order
\* (domestic list, then foreign list), all fetches end before the first
\* conversion, all conversions end before the merge, the merge runs once and
\* nothing is fetched or converted after it.
Thm_C11 ==
    /\ Len(log) <= Len(FullLog)
    /\ log = SubSeq(FullLog, 1, Len(log))
    /\ pc = "download" => Len(log) \in {idx - 1, idx} /\ (attempt > 1 => Len(log) = idx)
    /\ pc = "convert" => Len(log) = Len(all_files) + idx - 1
    /\ pc = "merge" => Len(log) = 2 * Len(all_files)
    /\ pc \in {"summary", "exit0"} => log = FullLog

\* a complete run in which one fetch needed all its tries and another was
\* exhausted
Wit_C11 ==
    /\ pc = "exit0"
    /\ log = FullLog
    /\ fetched["china-list.txt"] = "exhausted"
    /\ tried = <<"fail", "fail", "ok">>

\* C12: an I/O failure of the merge (the merged file cannot be deleted or
\* opened for writing) is fatal: a diagnostic is printed, the summary is not
\* reached and the run exits with a non-zero status; a converted file that
\* does not exist is skipped (its section part is left out) and never ends
\* the run.
Thm_C12 ==
    /\ merge_io # "none" =>
          /\ pc = "exit1"
          /\ diagnostic \in {"merge_error", "unexpected_error"}
    /\ pc \in {"summary", "exit0"} =>
          /\ merge_io = "none"
          /\ diagnostic = "none"
          /\ merged.exists
          /\ \A f \in Files :
                (\E i \in 1..Len(merged.content) : merged.content[i] = SourceLine(f))
                    <=> converted[f].exists
    /\ pc = "exit1" /\ release = "ok" => merge_io # "none"

\* a merge that could not open its file, in a run where a converted file is
\* missing
Wit_C12 ==
    /\ merge_io = "open_error"
    /\ pc = "exit1"
    /\ diagnostic = "merge_error"
    /\ ~merged.exists
    /\ \E f \in Files : ~converted[f].exists

\* a request that carries a bearer credential
CarriesBearer(r) == Len(r.auth) >= 1 /\ r.auth[1] = "Bearer"

\* C14 (as stated): a request to the primary source carries the token of the
\* token file, and nothing else, as its bearer credential when the file
\* holds one; a request to a mirror carries none; when no token file exists
\* no request carries a bearer credential.
Orig_C14 ==
    \A r \in requests :
        /\ r.to \in {"api", "release"} /\ token_file.exists
               /\ Strip(token_file.content) # <<>>
               => r.auth = <<"Bearer", " ">> \o Strip(token_file.content)
        /\ r.to \notin {"api", "release"} => ~CarriesBearer(r)
        /\ ~token_file.exists => ~CarriesBearer(r)

\* C15 (as stated): a try that fails leaves every raw file as it was (the
\* old copy is deleted only by a try that succeeds), and a raw file that is
\* present holds the complete body of a response, never an empty one.
Orig_C15 ==
    [][/\ failures' = failures + 1 => raw' = raw
       /\ \A f \in Files : raw'[f].exists => raw'[f].content = RemoteBody(f)]_vars

(* ------------------------------------------------------------------ *)
(* Specification of the conversion of one file                         *)
(* ------------------------------------------------------------------ *)
\* lines of a raw file: rules, a rule given twice in two spellings, a
\* comment, a blank line, a regular expression
RawLines ==
    {<<"a">>, FullPrefix \o <<"a">>, <<"b">>, <<"#", "x">>, <<" ">>,
     RegexpPrefix \o <<"r">>}

RawFiles == {Absent} \cup {FileOf(b) : b \in SeqsUpTo(RawLines, MaxBodyLines)}

\* the file the conversion specification converts
ConvFile == domestic_files[1]

\* what may be at the output path before a conversion: nothing, a file
\* some other program wrote, the output of an earlier conversion
FoundConverted ==
    {Absent,
     FileOf(<< <<"o">> >>),
     convert_file_to_adguard(ConvFile, FileOf(<< <<"c">> >>), Absent, default_domestic_dns)}

InitConvert ==
    /\ pc = "conv"
    /\ FreshRun
    /\ failures = 0
    /\ mirror_ok = FALSE
    /\ token_file = Absent
    /\ domestic_dns = default_domestic_dns
    /\ foreign_dns = default_foreign_dns
    /\ merged = Absent
    /\ in_line = <<>>
    /\ out_line = None
    /\ out_full = None
    /\ in_dns \in ResolverLists
    /\ found_converted \in FoundConverted
    /\ first_converted = Absent
    /\ \E r \in RawFiles : raw = [f \in Files |-> IF f = ConvFile THEN r ELSE Absent]
    /\ converted = [f \in Files |-> IF f = ConvFile THEN found_converted ELSE Absent]

\* convert_file_to_adguard on the file as found
convert_once ==
    /\ pc = "conv"
    /\ converted' = [converted EXCEPT
          ![ConvFile] = convert_file_to_adguard(ConvFile, raw[ConvFile],
                                                converted[ConvFile], in_dns)]
    /\ first_converted' = converted'[ConvFile]
    /\ pc' = "conv_once"
    /\ UNCHANGED <<run_vars, token_file, raw, merged, dns_vars, merge_vars,
                   in_line, in_dns, out_line, out_full, found_converted>>

\* convert_file_to_adguard again, same raw file, same resolvers
convert_again ==
    /\ pc = "conv_once"
    /\ converted' = [converted EXCEPT
          ![ConvFile] = convert_file_to_adguard(ConvFile, raw[ConvFile],
                                                converted[ConvFile], in_dns)]
    /\ pc' = "conv_twice"
    /\ UNCHANGED <<run_vars, token_file, raw, merged, dns_vars, merge_vars,
                   in_line, in_dns, out_line, out_full, conv_vars>>

NextConvert == convert_once \/ convert_again

SpecConvert == InitConvert /\ [][NextConvert]_vars

(* ------------------------------------------------------------------ *)
(* Claims about the conversion of a file (SpecConvert)                 *)
(* ------------------------------------------------------------------ *)
\* C13: converting a raw file twice with the same resolvers leaves the
\* converted file the first conversion left, and what a conversion of an
\* existing raw file leaves is what it leaves when no converted file was
\* there before.
Thm_C13 ==
    /\ pc = "conv_twice" => converted[ConvFile] = first_converted
    /\ pc \in {"conv_once", "conv_twice"} /\ raw[ConvFile].exists =>
          converted[ConvFile] =
              convert_file_to_adguard(ConvFile, raw[ConvFile], Absent, in_dns)

\* a second conversion over a converted file that was there before the first
Wit_C13 ==
    /\ pc = "conv_twice"
    /\ raw[ConvFile].exists
    /\ found_converted.exists
    /\ found_converted # first_converted
    /\ converted[ConvFile] = first_converted
    /\ Len(first_converted.content) = 3 + MaxBodyLines

\* the raw lines up to the i-th for which a line is written
Written(lines, dns_servers, i) ==
    {j \in 1..i : ConvertLine(lines[j], dns_servers) # None}

\* C16: after the two header lines and the blank line, a converted file
\* holds one line per raw line whose transformer result is not none, each
\* the result for its raw line, in the order of the raw lines; equal raw
\* lines give equal lines, all kept.
Thm_C16 ==
    pc \in {"conv_once", "conv_twice"} /\ raw[ConvFile].exists =>
        LET lines == raw[ConvFile].content
            out == converted[ConvFile].content
        IN  /\ Len(out) = 3 + Cardinality(Written(lines, in_dns, Len(lines)))
            /\ StartsWith(out[1], CommentMark)
            /\ StartsWith(out[2], CommentMark)
            /\ out[3] = <<>>
            /\ \A i \in Written(lines, in_dns, Len(lines)) :
                  ConvertLine(lines[i], in_dns) =
                      {out[3 + Cardinality(Written(lines, in_dns, i))]}

\* a raw file that gives a rule twice: both lines are in the converted file
Wit_C16 ==
    /\ pc = "conv_once"
    /\ raw[ConvFile].exists
    /\ Len(raw[ConvFile].content) >= 2
    /\ raw[ConvFile].content[1] = raw[ConvFile].content[2]
    /\ Len(converted[ConvFile].content) = 3 + Len(raw[ConvFile].content)
    /\ converted[ConvFile].content[4] = converted[ConvFile].content[5]

(* ------------------------------------------------------------------ *)
(* Specification of the merge over any converted files                 *)
(* ------------------------------------------------------------------ *)
\* lines a .adg.txt file on disk may hold, whoever wrote it: a directive,
\* a line without brackets, lines with one bracket only, a line whose ']'
\* comes before its '[', a comment that holds brackets, a blank line
AnyLines ==
    {<<"[", "/", "a", "/", "]", "8.8.8.8">>,
     <<"a", "b">>,
     <<"[", "/", "a">>,
     <<"a", "]">>,
     <<"]", "a", "[">>,
     <<"#", " ", "[", "c", "]">>,
     <<" ">>}

InitMergeAny ==
    /\ pc = "merge_only"
    /\ FreshRun
    /\ failures = 0
    /\ mirror_ok = FALSE
    /\ token_file = Absent
    /\ domestic_dns = default_domestic_dns
    /\ foreign_dns = default_foreign_dns
    /\ raw = [f \in Files |-> Absent]
    /\ merged = Absent
    /\ \E d \in {FileOf(b) : b \in SeqsUpTo(AnyLines, MaxBodyLines)},
          g \in {Absent} \cup {FileOf(<<l>>) : l \in AnyLines} :
          converted = [f \in Files |->
                          IF f = domestic_files[1] THEN d
                          ELSE IF f = foreign_files[1] THEN g
                          ELSE Absent]
    /\ NoLine

SpecMergeAny == InitMergeAny /\ [][create_merged_config]_vars

\* the lines of the merged file that the merge copied from converted files
RECURSIVE EmittedLines(_, _)
EmittedLines(lines, i) ==
    IF i > Len(lines) THEN <<>>
    ELSE (IF IsContentLine(lines[i]) THEN <<lines[i]>> ELSE <<>>)
         \o EmittedLines(lines, i + 1)

\* C17 (as stated): every line the merge emits holds a '[' and a ']', and
\* its key, the text from its first '[' to its first ']', is not empty,
\* starts with '[' and ends with ']'; the seen set holds the keys of the
\* emitted lines and the counters count them, so a line without a key
\* changes neither.
Orig_C17 ==
    pc = "merge_done" =>
        LET e == EmittedLines(merged.content, Len(MergedHeader) + 1)
        IN  /\ \A i \in 1..Len(e) :
                  /\ HasKey(e[i])
                  /\ DomainPart(e[i]) # <<>>
                  /\ Head(DomainPart(e[i])) = "["
                  /\ DomainPart(e[i])[Len(DomainPart(e[i]))] = "]"
            /\ processed_domains = {DomainPart(e[i]) : i \in 1..Len(e)}
            /\ domestic_count + foreign_count = Len(e)

(* ------------------------------------------------------------------ *)
(* Claims about the counters of the merge (SpecMerge)                  *)
(* ------------------------------------------------------------------ *)
\* the position of the foreign section line in the merged file
ForeignStart ==
    CHOOSE i \in 1..Len(merged.content) :
        merged.content[i] = SectionLine("foreign", foreign_dns)

\* the merge after the first k lines of the i-th file of a section, from the
\* seen set the section starts with
MergePoint(filenames, i, k, seen) ==
    MergeLines(SubSeq(converted[filenames[i]].content, 1, k),
               MergeFiles(SubSeq(filenames, 1, i - 1), converted,
                          [seen |-> seen, out |-> <<>>, count |-> 0]))

\* the points of the merge of a section: after each line of each file
MergePoints(filenames, seen) ==
    UNION {{MergePoint(filenames, i, k, seen) :
               k \in 0..Len(converted[filenames[i]].content)} :
           i \in {j \in 1..Len(filenames) : converted[filenames[j]].exists}}

\* C18: after each line of the merge, and at its end, the counter of the
\* section equals the number of directive lines emitted in the section so
\* far, and the domestic count plus the foreign count equals the size of the
\* seen set; a duplicate that is dropped increments no counter.
Thm_C18 ==
    pc = "merge_done" =>
        LET d == MergePoints(domestic_files, {})
            dom == MergeFiles(domestic_files, converted,
                              [seen |-> {}, out |-> <<>>, count |-> 0])
            g == MergePoints(foreign_files, dom.seen)
        IN  /\ \A p \in d : /\ p.count = Len(Directives(p.out))
                            /\ p.count = Cardinality(p.seen)
            /\ \A p \in g : /\ p.count = Len(Directives(p.out))
                            /\ dom.count + p.count = Cardinality(p.seen)
            /\ domestic_count =
                  Len(Directives(SubSeq(merged.content, 1, ForeignStart)))
            /\ foreign_count =
                  Len(Directives(SubSeq(merged.content, ForeignStart,
                                        Len(merged.content))))
            /\ domestic_count + foreign_count = Cardinality(processed_domains)

\* a merge that emitted lines in both sections and dropped a duplicate
Wit_C18 ==
    /\ pc = "merge_done"
    /\ domestic_count > 0
    /\ foreign_count > 0
    /\ domestic_count + foreign_count < Len(Processed(all_files, converted))

(* ------------------------------------------------------------------ *)
(* Termination of a run (Spec)                                         *)
(* ------------------------------------------------------------------ *)
\* the steps of a run that has started
RunStep ==
    \/ get_latest_release_info
    \/ download_try
    \/ convert_step
    \/ create_merged_config_error
    \/ create_merged_config
    \/ show_summary

Running == pc \in {"release", "download", "convert", "merge", "summary"}

\* steps a run can still take, at most
Rank ==
    CASE pc = "release" ->
             (Len(all_files) + 1) * max_attempts + Len(all_files) + 3
      [] pc = "download" ->
             (Len(all_files) - idx) * max_attempts + (max_attempts - attempt + 1)
                 + Len(all_files) + 2
      [] pc = "convert" -> (Len(all_files) - idx + 1) + 2
      [] pc = "merge" -> 2
      [] pc = "summary" -> 1
      [] OTHER -> 0

\* C19: a run that has not ended can always take a step, assuming each
\* request returns or fails, and every step of a run lowers the number of
\* steps it can still take, which is never negative, so every run ends, at
\* the summary with exit status 0 or with a non-zero status; a call of
\* download_file_with_retry makes at most max_attempts requests, and a run
\* sends at most one metadata request and calls download_file_with_retry at
\* most once per file.
Thm_C19 ==
    /\ [](Running => ENABLED RunStep)
    /\ [](/\ Len(tried) <= max_attempts
          /\ attempt \in 1..max_attempts
          /\ Cardinality({r \in requests : r.to = "api"}) <= 1
          /\ Cardinality({r \in requests : r.to # "api"}) <= Len(all_files)
          /\ Len(log) <= Len(FullLog)
          /\ Rank = 0 <=> ~Running)
    /\ [][Running => Rank' < Rank /\ Rank' >= 0]_vars

\* a run that ended at the summary after a call that used all its tries
\* and failed and a call that succeeded at its last try
Wit_C19 ==
    /\ pc = "exit0"
    /\ Len(tried) = max_attempts
    /\ tried[max_attempts] = "ok"
    /\ \E f \in Files : fetched[f] = "exhausted"

====
